---- MODULE Spec2Model ----
(***************************************************************************)
(* PptExtractor (src/app.py): a Dash page that takes an uploaded .pptx,    *)
(* collects every text shape whose trimmed text starts with "Assessment"   *)
(* and overwrites output.xlsx with one row per such shape.                 *)
(*                                                                         *)
(* Python strings are modelled as sequences of one-character strings, so   *)
(* that strip(), lower(), startswith() and endswith() are computed and not *)
(* assumed.  A dict is a sequence of <<key, value>> pairs in insertion     *)
(* order, a list is a sequence.                                            *)
(***************************************************************************)
EXTENDS Integers, Sequences, FiniteSets, TLC

VARIABLES
    output_file,   \* the file at OUTPUT_FILE on disk: [exists, sheet]
    last,          \* Spec: the most recent upload event and what process_upload returned
    req,           \* SpecConc: per request thread, its position in process_upload and its locals
    phase,         \* SpecPure: position in the extract -> write pipeline
    prs,           \* SpecPure: the parsed presentation (sequence of slides, each a sequence of shapes)
    assessments,   \* SpecPure: the list returned by extract_assessments_from_ppt
    sheet          \* SpecPure: the worksheet write_to_excel produced

vars == <<output_file, last, req, phase, prs, assessments, sheet>>

-----------------------------------------------------------------------------
(* Bounds of the model *)

MaxSlides == 2      \* slides per generated presentation
MaxShapes == 2      \* shapes per generated slide
NumClients == 2     \* request threads of the development server in SpecConc

-----------------------------------------------------------------------------
(* Python values *)

None == [none |-> TRUE]
Some(v) == [none |-> FALSE, v |-> v]

Return(v) == [ok |-> TRUE, value |-> v, exc |-> ""]
Raise(e) == [ok |-> FALSE, value |-> <<>>, exc |-> e]

OUTPUT_FILE == "output.xlsx"

\* the literal of line 33
ASSESSMENT == <<"A","s","s","e","s","s","m","e","n","t">>

\* the literal of line 109
PPTX_EXT == <<".","p","p","t","x">>

\* the characters str.strip() removes (those that occur in the model's texts)
Whitespace == {" ", "\t", "\n", "\r", "\f"}

RECURSIVE lstrip(_)
lstrip(s) ==
    IF s # <<>> /\ Head(s) \in Whitespace THEN lstrip(Tail(s)) ELSE s

RECURSIVE rstrip(_)
rstrip(s) ==
    IF s # <<>> /\ s[Len(s)] \in Whitespace
    THEN rstrip(SubSeq(s, 1, Len(s) - 1))
    ELSE s

strip_left_only(s) == lstrip(s)

\* str.strip(), line 32
strip(s) == rstrip(lstrip(s))

startswith_anywhere(s, prefix) ==
    \E k \in 1..(Len(s) - Len(prefix) + 1) : SubSeq(s, k, k + Len(prefix) - 1) = prefix

\* str.startswith(), line 33
startswith(s, prefix) ==
    Len(s) >= Len(prefix) /\ SubSeq(s, 1, Len(prefix)) = prefix

endswith_contains(s, suffix) ==
    \E k \in 1..(Len(s) - Len(suffix) + 1) : SubSeq(s, k, k + Len(suffix) - 1) = suffix

\* str.endswith(), line 109
endswith(s, suffix) ==
    Len(s) >= Len(suffix) /\ SubSeq(s, Len(s) - Len(suffix) + 1, Len(s)) = suffix

\* str.lower() on one character (the upper-case letters the model's file names use)
LowerChar(c) ==
    CASE c = "D" -> "d"
      [] c = "E" -> "e"
      [] c = "C" -> "c"
      [] c = "K" -> "k"
      [] c = "P" -> "p"
      [] c = "T" -> "t"
      [] c = "X" -> "x"
      [] OTHER -> c

\* str.lower(), line 109
lower(s) == [k \in 1..Len(s) |-> LowerChar(s[k])]

-----------------------------------------------------------------------------
(* Extractor: extract_assessments_from_ppt, lines 15-39 *)

\* a shape of python-pptx as the loop reads it: has_text_frame and text
Shape(frame, text) == [has_text_frame |-> frame, text |-> text]

MkRecord_zero_based(slide_number, text) ==
    << <<"Slide", slide_number - 1>>, <<"Assessment Text", text>> >>

\* the dict literal of lines 34-37, keys in insertion order
MkRecord(slide_number, text) ==
    << <<"Slide", slide_number>>, <<"Assessment Text", text>> >>

append_front(list, x) == <<x>> \o list

\* list.append, line 34
append(list, x) == Append(list, x)

\* the inner loop, lines 28-37
RECURSIVE ScanShapes(_, _, _)
ScanShapes(shapes, slide_number, acc) ==
    IF shapes = <<>> THEN acc
    ELSE LET shape == Head(shapes) IN
         IF ~shape.has_text_frame
         THEN ScanShapes(Tail(shapes), slide_number, acc)
         ELSE LET text == strip(shape.text) IN
              IF startswith(text, ASSESSMENT)
              THEN ScanShapes(Tail(shapes), slide_number,
                              append(acc, MkRecord(slide_number, text)))
              ELSE ScanShapes(Tail(shapes), slide_number, acc)

\* the outer loop, line 27: enumerate(prs.slides, start=1)
RECURSIVE ScanSlides(_, _, _)
ScanSlides(slides, slide_number, acc) ==
    IF slides = <<>> THEN acc
    ELSE ScanSlides(Tail(slides), slide_number + 1,
                    ScanShapes(Head(slides), slide_number, acc))

\* lines 25-39 on a parsed presentation
ExtractSlides(p) == ScanSlides(p, 1, <<>>)

-----------------------------------------------------------------------------
(* Upload payload: "data:<mime-type>;base64,<data>" as a sequence of tokens *)

NoBytes == [fmt |-> "none", prs |-> <<>>]
PptxBytes(p) == [fmt |-> "pptx", prs |-> p]      \* the bytes of a well-formed .pptx
JunkBytes == [fmt |-> "junk", prs |-> <<>>]      \* bytes that are no .pptx package

TextTok == [kind |-> "text", bytes |-> NoBytes]        \* the "data:<mime-type>;base64" header
CommaTok == [kind |-> "comma", bytes |-> NoBytes]      \* a ","
B64Tok(b) == [kind |-> "b64", bytes |-> b]             \* base64 text encoding the bytes b
BadB64Tok == [kind |-> "badb64", bytes |-> NoBytes]    \* text base64 cannot decode (bad padding)

\* str.split(','), line 19
RECURSIVE split(_)
split(s) ==
    IF s = <<>> THEN << <<>> >>
    ELSE IF Head(s).kind = "comma" THEN << <<>> >> \o split(Tail(s))
    ELSE LET r == split(Tail(s)) IN << <<Head(s)>> \o Head(r) >> \o Tail(r)

\* base64.b64decode, line 20
b64decode(content_string) ==
    IF content_string = <<>> THEN Return(JunkBytes)
    ELSE IF Len(content_string) = 1 /\ content_string[1].kind = "b64"
    THEN Return(content_string[1].bytes)
    ELSE Raise("Incorrect padding")

\* Presentation(io.BytesIO(decoded)), line 22
Presentation(decoded) ==
    IF decoded.fmt = "pptx" THEN Return(decoded.prs)
    ELSE Raise("File is not a zip file")

\* extract_assessments_from_ppt, lines 15-39: the list, or the exception raised
extract_assessments_from_ppt(contents) ==
    LET parts == split(contents) IN
    IF Len(parts) < 2 THEN Raise("not enough values to unpack (expected 2, got 1)")
    ELSE IF Len(parts) > 2 THEN Raise("too many values to unpack (expected 2)")
    ELSE LET decoded == b64decode(parts[2]) IN
         IF ~decoded.ok THEN decoded
         ELSE LET p == Presentation(decoded.value) IN
              IF ~p.ok THEN p
              ELSE Return(ExtractSlides(p.value))

-----------------------------------------------------------------------------
(* Writer: write_to_excel, lines 42-44 *)

\* dict lookup by key
Get(d, key) == d[CHOOSE k \in 1..Len(d) : d[k][1] = key][2]

\* pd.DataFrame(data) on a list of dicts, lines 43 and 123: the columns are the
\* keys in insertion order, one row per dict
DataFrame(data) ==
    LET columns == IF data = <<>> THEN <<>>
                   ELSE [k \in 1..Len(data[1]) |-> data[1][k][1]]
    IN [columns |-> columns,
        rows |-> [r \in 1..Len(data) |->
                    [c \in 1..Len(columns) |-> Get(data[r], columns[c])]]]

\* DataFrame.to_excel(..., index=index, engine="openpyxl"): a header row with the
\* column names, then one row per DataFrame row; index=True puts the row label first
to_excel(df, index) ==
    LET header == (IF index THEN <<"">> ELSE <<>>) \o df.columns
        body == [r \in 1..Len(df.rows) |->
                    (IF index THEN <<r - 1>> ELSE <<>>) \o df.rows[r]]
    IN <<header>> \o body

ToSheet_with_index(data) == to_excel(DataFrame(data), TRUE)

\* lines 43-44: the worksheet written for data (index=False)
ToSheet(data) == to_excel(DataFrame(data), FALSE)

NoFile == [exists |-> FALSE, sheet |-> <<>>]

SaveFile_append(old, newsheet) ==
    IF old.exists
    THEN [exists |-> TRUE, sheet |-> old.sheet \o Tail(newsheet)]
    ELSE [exists |-> TRUE, sheet |-> newsheet]

\* line 44: to_excel opens OUTPUT_FILE for writing, which replaces the file
SaveFile(old, newsheet) == [exists |-> TRUE, sheet |-> newsheet]

\* write_to_excel, lines 42-44; writable is whether OUTPUT_FILE can be opened
\* for writing when the call is made
write_to_excel(data, file, writable) ==
    IF ~writable
    THEN [ok |-> FALSE, file |-> file, exc |-> "[Errno 13] Permission denied: 'output.xlsx'"]
    ELSE [ok |-> TRUE, file |-> SaveFile(file, ToSheet(data)), exc |-> ""]

-----------------------------------------------------------------------------
(* Upload handler: process_upload, lines 105-149 *)

\* html.Div(children, style={"color": color}); the f-strings keep their argument apart
Div(msg, n, cause, color) == [msg |-> msg, n |-> n, cause |-> cause, color |-> color]

Plain == Div("", 0, "", "")                                               \* "" of line 107
ExtensionError == Div("Please upload a .pptx file.", 0, "", "red")          \* line 110
NoResults == Div("No assessments found in this presentation.", 0, "", "orange") \* lines 116-119
Success(n) ==                                                              \* lines 126-129
    Div("Successfully extracted {n} assessments. Excel file overwritten: output.xlsx",
        n, "", "green")
ErrorDiv(cause) == Div("Error: {cause}", 0, cause, "red")                   \* line 149

EmptyPreview == [header |-> <<>>, cells |-> <<>>]                          \* "" as the preview

\* dcc.Graph table of lines 130-145: header list(df.columns), one cell list per column
Graph(df) ==
    [header |-> df.columns,
     cells |-> [c \in 1..Len(df.columns) |->
                  [r \in 1..Len(df.rows) |-> df.rows[r][c]]]]

\* what one call of process_upload did: the pair it returned (or the exception that
\* left it), the file afterwards, and which of the two backend functions it called
Resp(status, preview, file, raised, ex, wr, data) ==
    [status |-> status, preview |-> preview, file |-> file, raised |-> raised,
     extract_called |-> ex, write_called |-> wr, data |-> data]

AfterExtract_write_first(data, file, writable) ==
    LET w == write_to_excel(data, file, writable) IN
    IF ~w.ok THEN Resp(ErrorDiv(w.exc), EmptyPreview, w.file, "", TRUE, TRUE, data)
    ELSE IF data = <<>>
    THEN Resp(NoResults, EmptyPreview, w.file, "", TRUE, TRUE, data)
    ELSE Resp(Success(Len(data)), Graph(DataFrame(data)), w.file, "", TRUE, TRUE, data)

\* lines 115-146 (and 148-149 for an exception of the writer)
AfterExtract(data, file, writable) ==
    IF data = <<>>
    THEN Resp(NoResults, EmptyPreview, file, "", TRUE, FALSE, data)
    ELSE LET w == write_to_excel(data, file, writable) IN
         IF ~w.ok
         THEN Resp(ErrorDiv(w.exc), EmptyPreview, w.file, "", TRUE, TRUE, data)
         ELSE Resp(Success(Len(data)), Graph(DataFrame(data)), w.file, "", TRUE, TRUE, data)

\* the try block, lines 112-149
TryBlock(content, file, writable) ==
    LET r == extract_assessments_from_ppt(content) IN
    IF ~r.ok
    THEN Resp(ErrorDiv(r.exc), EmptyPreview, file, "", TRUE, FALSE, <<>>)
    ELSE AfterExtract(r.value, file, writable)

\* the two checks that precede the try block, lines 106-110; filename.lower() of
\* line 109 is evaluated outside the try
EntryOutcome(contents, filename) ==
    IF contents = None THEN "empty"
    ELSE IF filename = None THEN "raise"
    ELSE IF ~endswith(lower(filename.v), PPTX_EXT) THEN "extension"
    ELSE "try"

\* process_upload, lines 105-149
process_upload(contents, filename, file, writable) ==
    LET e == EntryOutcome(contents, filename) IN
    IF e = "empty" THEN Resp(Plain, EmptyPreview, file, "", FALSE, FALSE, <<>>)
    ELSE IF e = "raise"
    THEN Resp(Plain, EmptyPreview, file,
              "'NoneType' object has no attribute 'lower'", FALSE, FALSE, <<>>)
    ELSE IF e = "extension"
    THEN Resp(ExtensionError, EmptyPreview, file, "", FALSE, FALSE, <<>>)
    ELSE TryBlock(contents.v, file, writable)

-----------------------------------------------------------------------------
(* Inputs *)

T_AssessmentA == ASSESSMENT \o <<" ", "A">>
T_AssessmentB == ASSESSMENT \o <<" ", "B">>
T_AssessmentC == ASSESSMENT \o <<" ", "C">>
T_PaddedRisk == <<" ", " ">> \o ASSESSMENT \o <<":", " ", "r", "i", "s", "k">>
T_LowerRisk == <<"a","s","s","e","s","s","m","e","n","t",":"," ","r","i","s","k">>
T_PreAssessment == <<"P", "r", "e", "-">> \o ASSESSMENT
T_TrailingA == <<"\t">> \o ASSESSMENT \o <<" ", "A", " ", "\n">>
T_Assess == <<"A","s","s","e","s","s">>
T_Blank == <<" ", "\n">>
T_Notes == <<"N", "o", "t", "e", "s">>

\* a shape without a text frame (a picture, a group, a table frame); text is what the
\* shape would show if the loop did not skip it
Picture == Shape(FALSE, T_AssessmentC)

\* the 3-slide presentation of the specification's example
DocExample ==
    << <<Shape(TRUE, T_AssessmentA)>>,
       <<Shape(TRUE, T_Notes)>>,
       <<Shape(TRUE, T_AssessmentB), Shape(TRUE, T_AssessmentC)>> >>

DocNoMatch ==
    << <<Shape(TRUE, T_LowerRisk), Shape(TRUE, T_PreAssessment)>>,
       <<Picture, Shape(TRUE, T_Assess), Shape(TRUE, T_Blank)>> >>

DocOne == << <<Shape(TRUE, T_PaddedRisk)>> >>

DocLate ==
    << <<>>,
       <<Picture, Shape(TRUE, T_PreAssessment)>>,
       <<Shape(TRUE, T_TrailingA), Picture, Shape(TRUE, T_AssessmentA)>> >>

DocLower == << <<Shape(TRUE, T_LowerRisk)>> >>

DocNoSlides == <<>>

SampleDocs == {DocExample, DocNoMatch, DocOne, DocLate, DocLower, DocNoSlides}

SeqsUpTo(S, n) == UNION {[1..k -> S] : k \in 0..n}

ShapePool == {Shape(TRUE, T_PaddedRisk), Shape(TRUE, T_PreAssessment), Picture}

\* every presentation of at most MaxSlides slides of at most MaxShapes shapes
GenDocs == SeqsUpTo(SeqsUpTo(ShapePool, MaxShapes), MaxSlides)

Docs == GenDocs \cup SampleDocs

\* the contents property the browser sets for an uploaded file
Upload(bytes) == <<TextTok, CommaTok, B64Tok(bytes)>>

Contents ==
    {None}
    \cup {Some(Upload(PptxBytes(d))) : d \in SampleDocs}
    \cup {Some(Upload(JunkBytes)),                       \* a corrupted .pptx
          Some(<<TextTok, CommaTok, BadB64Tok>>),        \* undecodable base64
          Some(<<TextTok>>),                             \* no comma
          Some(<<>>),                                    \* the empty string
          Some(<<TextTok, CommaTok, TextTok, CommaTok, B64Tok(PptxBytes(DocOne))>>)}

F_deck_pptx == <<"d","e","c","k",".","p","p","t","x">>
F_DECK_PPTX == <<"D","E","C","K",".","P","P","T","X">>
F_notes_txt == <<"n","o","t","e","s",".","t","x","t">>
F_deck_pptx_txt == F_deck_pptx \o <<".","t","x","t">>
F_pptx == <<"p","p","t","x">>

Filenames ==
    {None, Some(F_deck_pptx), Some(F_DECK_PPTX), Some(F_notes_txt),
     Some(F_deck_pptx_txt), Some(F_pptx)}

-----------------------------------------------------------------------------
(* Spec: one client, upload events handled one after the other *)

NoEvent ==
    [handled |-> FALSE, contents |-> None, filename |-> None, writable |-> TRUE,
     prev_file |-> NoFile, resp |-> Resp(Plain, EmptyPreview, NoFile, "", FALSE, FALSE, <<>>)]

IdleReq == [pc |-> "idle", contents |-> None, data |-> <<>>, status |-> Plain]

\* the values the variables of the other specifications keep
PureIdle ==
    /\ phase = "off" /\ prs = <<>> /\ assessments = <<>> /\ sheet = <<>>

ConcIdle == req = [t \in 1..NumClients |-> IdleReq]

\* the app after construction (lines 51-104): nothing uploaded; output.xlsx may be
\* left from an earlier run of the program
Init ==
    /\ output_file \in {NoFile, SaveFile(NoFile, ToSheet(ExtractSlides(DocLate)))}
    /\ last = NoEvent
    /\ ConcIdle
    /\ PureIdle

\* one upload event: the callback of lines 98-104 runs process_upload to completion
UploadEvent ==
    \E contents \in Contents, filename \in Filenames, writable \in BOOLEAN :
        LET r == process_upload(contents, filename, output_file, writable) IN
        /\ output_file' = r.file
        /\ last' = [handled |-> TRUE, contents |-> contents, filename |-> filename,
                    writable |-> writable, prev_file |-> output_file, resp |-> r]
        /\ UNCHANGED <<req, phase, prs, assessments, sheet>>

Next == UploadEvent

Spec == Init /\ [][Next]_vars

-----------------------------------------------------------------------------
(* SpecPure: the extractor and the writer as functions of a presentation *)

PureInit ==
    /\ prs \in Docs
    /\ phase = "parsed"
    /\ assessments = <<>>
    /\ sheet = <<>>
    /\ output_file = NoFile
    /\ last = NoEvent
    /\ ConcIdle

\* lines 25-39 applied to prs
PureExtract ==
    /\ phase = "parsed"
    /\ assessments' = ExtractSlides(prs)
    /\ phase' = "extracted"
    /\ UNCHANGED <<output_file, last, req, prs, sheet>>

\* write_to_excel(data) of line 121, called for a non-empty list only (line 115)
PureWrite ==
    /\ phase = "extracted"
    /\ assessments # <<>>
    /\ LET w == write_to_excel(assessments, output_file, TRUE) IN
        /\ output_file' = w.file
        /\ sheet' = w.file.sheet
    /\ phase' = "written"
    /\ UNCHANGED <<last, req, prs, assessments>>

PureNext == PureExtract \/ PureWrite

SpecPure == PureInit /\ [][PureNext]_vars

-----------------------------------------------------------------------------
(* SpecConc: the server app.run(debug=True) starts (line 157) is Flask's         *)
(* development server, which handles every request in a thread of its own;       *)
(* process_upload takes no lock, so a request thread can stand at any of its     *)
(* calls while another one runs.  One step per call of lines 105-146.            *)

ConcContents ==
    {None, Some(Upload(PptxBytes(DocExample))), Some(Upload(PptxBytes(DocOne))),
     Some(Upload(PptxBytes(DocNoMatch))), Some(Upload(JunkBytes))}

ConcFilenames == {Some(F_deck_pptx), Some(F_notes_txt)}

ConcInit ==
    /\ output_file = NoFile
    /\ req = [t \in 1..NumClients |-> IdleReq]
    /\ last = NoEvent
    /\ PureIdle

Answer(t, status) == [req EXCEPT ![t] = [IdleReq EXCEPT !.status = status]]

\* a request arrives and runs lines 106-110
ConcEntry(t) ==
    /\ req[t].pc = "idle"
    /\ \E contents \in ConcContents, filename \in ConcFilenames :
        LET e == EntryOutcome(contents, filename) IN
        req' = IF e = "try"
               THEN [req EXCEPT ![t] = [pc |-> "extract", contents |-> contents,
                                        data |-> <<>>, status |-> Plain]]
               ELSE IF e = "extension" THEN Answer(t, ExtensionError)
               ELSE Answer(t, Plain)
    /\ UNCHANGED <<output_file, last, phase, prs, assessments, sheet>>

\* line 113 and the test of line 115
ConcExtract(t) ==
    /\ req[t].pc = "extract"
    /\ LET r == extract_assessments_from_ppt(req[t].contents.v) IN
        req' = IF ~r.ok THEN Answer(t, ErrorDiv(r.exc))
               ELSE IF r.value = <<>> THEN Answer(t, NoResults)
               ELSE [req EXCEPT ![t].pc = "write", ![t].data = r.value]
    /\ UNCHANGED <<output_file, last, phase, prs, assessments, sheet>>

\* line 121
ConcWrite(t) ==
    /\ req[t].pc = "write"
    /\ \E writable \in BOOLEAN :
        LET w == write_to_excel(req[t].data, output_file, writable) IN
        /\ output_file' = w.file
        /\ req' = IF ~w.ok THEN Answer(t, ErrorDiv(w.exc))
                  ELSE [req EXCEPT ![t].pc = "render"]
    /\ UNCHANGED <<last, phase, prs, assessments, sheet>>

\* lines 123-146
ConcRender(t) ==
    /\ req[t].pc = "render"
    /\ req' = Answer(t, Success(Len(req[t].data)))
    /\ UNCHANGED <<output_file, last, phase, prs, assessments, sheet>>

ConcNext ==
    \E t \in 1..NumClients :
        ConcEntry(t) \/ ConcExtract(t) \/ ConcWrite(t) \/ ConcRender(t)

SpecConc == ConcInit /\ [][ConcNext]_vars

-----------------------------------------------------------------------------
(* What the claims speak of, stated without the operators of the extractor *)

Blank == {" ", "\t", "\n", "\r", "\f"}

Ink(t) == {k \in 1..Len(t) : t[k] \notin Blank}

SetMin(S) == CHOOSE x \in S : \A y \in S : x <= y
SetMax(S) == CHOOSE x \in S : \A y \in S : x >= y

\* t without its leading and trailing blanks
Trimmed(t) == IF Ink(t) = {} THEN <<>> ELSE SubSeq(t, SetMin(Ink(t)), SetMax(Ink(t)))

Literal == <<"A","s","s","e","s","s","m","e","n","t">>

\* the shape has text and its trimmed text starts with the literal, case-sensitively
Qualifies(sh) ==
    /\ sh.has_text_frame
    /\ LET t == Trimmed(sh.text) IN
        /\ Len(t) >= Len(Literal)
        /\ \A k \in 1..Len(Literal) : t[k] = Literal[k]

Positions(p) == UNION {{<<i, j>> : j \in 1..Len(p[i])} : i \in 1..Len(p)}

\* <<slide, shape>> of every qualifying shape of the presentation p
MatchPos(p) == {q \in Positions(p) : Qualifies(p[q[1]][q[2]])}

Before(x, q) == x[1] < q[1] \/ (x[1] = q[1] /\ x[2] <= q[2])

Rank(p, q) == Cardinality({x \in MatchPos(p) : Before(x, q)})

Rec(n, t) == << <<"Slide", n>>, <<"Assessment Text", t>> >>

\* one record per qualifying shape, by slide and then by shape within the slide
Expected(p) ==
    [k \in 1..Cardinality(MatchPos(p)) |->
        LET q == CHOOSE q \in MatchPos(p) : Rank(p, q) = k IN
        Rec(q[1], Trimmed(p[q[1]][q[2]].text))]

SlideOf(rec) == Get(rec, "Slide")
TextOf(rec) == Get(rec, "Assessment Text")

\* a worksheet read back: the first row names the columns, every other row is a record
ReadBack(sh) ==
    [r \in 1..(Len(sh) - 1) |-> [c \in 1..Len(sh[1]) |-> <<sh[1][c], sh[r + 1][c]>>]]

TwoColumns == <<"Slide", "Assessment Text">>

\* the file name ends in ".pptx" in any mix of cases
EndsInPptx(f) ==
    /\ Len(f) >= 5
    /\ LET n == Len(f) IN
        /\ f[n - 4] = "."
        /\ f[n - 3] \in {"p", "P"}
        /\ f[n - 2] \in {"p", "P"}
        /\ f[n - 1] \in {"t", "T"}
        /\ f[n] \in {"x", "X"}

\* the presentation an upload of the browser carries
UploadedDoc(c) == c.v[Len(c.v)].bytes.prs

PptxUploads == {Some(Upload(PptxBytes(d))) : d \in SampleDocs}

Succeeded == last.handled /\ last.resp.status.color = "green"

ExtractionCauses ==
    {"not enough values to unpack (expected 2, got 1)",
     "too many values to unpack (expected 2)",
     "Incorrect padding", "File is not a zip file"}

-----------------------------------------------------------------------------
(* Claims *)

\* C1: whenever the most recent upload event ended in the success outcome, the
\* output file holds exactly the records of that upload, in order, under the two
\* columns, and nothing of what the file held before.
C1_FileIsLastSuccessfulExtraction ==
    Succeeded =>
        /\ output_file.exists
        /\ output_file.sheet[1] = TwoColumns
        /\ ReadBack(output_file.sheet) = last.resp.data
        /\ ReadBack(output_file.sheet) = Expected(UploadedDoc(last.contents))

\* C1 witness: a success that replaced a longer earlier file
C1_Witness ==
    /\ Succeeded
    /\ last.prev_file.exists
    /\ Len(last.prev_file.sheet) > Len(output_file.sheet)

\* C2: an upload that reaches the extractor with a presentation that has no
\* qualifying shape gets an empty list and the "no results" message, and
\* write_to_excel is not called: the file is as it was.
C2_NoMatchNoWrite ==
    (/\ last.handled
     /\ ~last.filename.none /\ EndsInPptx(last.filename.v)
     /\ last.contents \in {c \in PptxUploads : MatchPos(UploadedDoc(c)) = {}})
    =>
        /\ last.resp.extract_called
        /\ last.resp.data = <<>>
        /\ last.resp.status.msg = "No assessments found in this presentation."
        /\ last.resp.status.color = "orange"
        /\ last.resp.preview = EmptyPreview
        /\ ~last.resp.write_called
        /\ output_file = last.prev_file

\* C2 witness: a presentation with text shapes, none qualifying, uploaded while a
\* file exists
C2_Witness ==
    /\ last.handled
    /\ last.contents = Some(Upload(PptxBytes(DocNoMatch)))
    /\ last.resp.status = NoResults
    /\ last.prev_file.exists

\* C3 (as claimed): for any contents and any filename process_upload returns a
\* (status, preview) pair and no exception leaves it; an exception of the extractor
\* or of the writer gives the "Error: <cause>" message and an empty preview.
C3_NoExceptionEscapes ==
    last.handled =>
        /\ last.resp.raised = ""
        /\ (last.resp.status.cause # "" =>
                /\ last.resp.status.msg = "Error: {cause}"
                /\ last.resp.preview = EmptyPreview)

\* C4: an upload (contents present) whose file name does not end in ".pptx" after
\* lower-casing gets the extension-error message and an empty preview; neither
\* extract_assessments_from_ppt nor write_to_excel is called, nothing is raised and
\* the file is as it was.
C4_WrongExtensionRejectedFirst ==
    (/\ last.handled
     /\ ~last.contents.none
     /\ ~last.filename.none /\ ~EndsInPptx(last.filename.v))
    =>
        /\ last.resp.status.msg = "Please upload a .pptx file."
        /\ last.resp.status.color = "red"
        /\ last.resp.preview = EmptyPreview
        /\ ~last.resp.extract_called
        /\ ~last.resp.write_called
        /\ last.resp.raised = ""
        /\ output_file = last.prev_file

\* C4 witness: "notes.txt" carrying a well-formed presentation with matches
C4_Witness ==
    /\ last.handled
    /\ last.filename = Some(F_notes_txt)
    /\ last.contents = Some(Upload(PptxBytes(DocExample)))
    /\ last.resp.status = ExtensionError

\* C5: every record's slide number is the 1-based position of a slide that holds a
\* qualifying shape with the record's text; slides without a match count too.
C5_SlideNumberIsPosition ==
    phase \in {"extracted", "written"} =>
        \A k \in 1..Len(assessments) :
            \E q \in MatchPos(prs) :
                /\ SlideOf(assessments[k]) = q[1]
                /\ TextOf(assessments[k]) = Trimmed(prs[q[1]][q[2]].text)

\* C5 witness: a record of slide 2 or later although slide 1 has no match
C5_Witness ==
    /\ phase = "extracted"
    /\ assessments # <<>>
    /\ \A q \in MatchPos(prs) : q[1] >= 2
    /\ SlideOf(assessments[1]) >= 2

\* C6: a shape yields a record iff it has text whose trimmed form starts with the
\* literal: per slide there are as many records as qualifying shapes and their texts
\* are the trimmed texts; the padded text matches, the lower-case and the
\* "Pre-Assessment" texts and the shape without text do not.
C6_RecordIffTrimmedPrefix ==
    phase \in {"extracted", "written"} =>
        /\ \A k \in 1..Len(assessments) : SlideOf(assessments[k]) \in 1..Len(prs)
        /\ \A i \in 1..Len(prs) :
            LET recs == {k \in 1..Len(assessments) : SlideOf(assessments[k]) = i}
                hits == {j \in 1..Len(prs[i]) : Qualifies(prs[i][j])}
            IN /\ Cardinality(recs) = Cardinality(hits)
               /\ {TextOf(assessments[k]) : k \in recs}
                    = {Trimmed(prs[i][j].text) : j \in hits}
        /\ (prs = << <<Shape(TRUE, T_PaddedRisk)>> >> =>
                assessments = <<Rec(1, ASSESSMENT \o <<":", " ", "r", "i", "s", "k">>)>>)
        /\ (prs = << <<Shape(TRUE, T_LowerRisk)>> >> => assessments = <<>>)
        /\ (prs = << <<Shape(TRUE, T_PreAssessment)>> >> => assessments = <<>>)
        /\ (prs = << <<Picture>> >> => assessments = <<>>)

\* C6 witness: a presentation with a qualifying shape that needed trimming, a shape
\* without text and a text shape that does not qualify
C6_Witness ==
    /\ phase = "extracted"
    /\ \E q \in MatchPos(prs) :
        /\ prs[q[1]][q[2]].text # Trimmed(prs[q[1]][q[2]].text)
        /\ \E k \in 1..Len(assessments) :
            TextOf(assessments[k]) = Trimmed(prs[q[1]][q[2]].text)
    /\ \E q \in Positions(prs) : ~prs[q[1]][q[2]].has_text_frame
    /\ \E q \in Positions(prs) \ MatchPos(prs) : prs[q[1]][q[2]].has_text_frame

\* C7: one record per qualifying shape, in slide order and then shape order; the
\* 3-slide example gives [(1,"Assessment A"), (3,"Assessment B"), (3,"Assessment C")].
C7_OnePerMatchInOrder ==
    phase \in {"extracted", "written"} =>
        /\ assessments = Expected(prs)
        /\ (prs = DocExample =>
                assessments = <<Rec(1, T_AssessmentA), Rec(3, T_AssessmentB),
                                Rec(3, T_AssessmentC)>>)

\* C7 witness: the example presentation extracted
C7_Witness ==
    /\ phase = "extracted"
    /\ prs = DocExample
    /\ Len(assessments) = 3

\* C8: the worksheet written for a non-empty list of records has the header row
\* Slide, Assessment Text and no index column, and read back gives the same records
\* in the same order.
C8_WriteReadRoundTrip ==
    phase = "written" =>
        /\ output_file.exists
        /\ output_file.sheet = sheet
        /\ sheet[1] = TwoColumns
        /\ Len(sheet) = Len(assessments) + 1
        /\ ReadBack(sheet) = assessments

\* C8 witness: a written sheet of at least two different records
C8_Witness ==
    /\ phase = "written"
    /\ Len(assessments) >= 2
    /\ assessments[1] # assessments[2]

\* C9 (as claimed): upload events are handled one at a time: while one event is
\* between its arrival and its return no other event is.
C9_OneEventAtATime ==
    Cardinality({t \in 1..NumClients : req[t].pc # "idle"}) <= 1

\* C10: an event that ends in the empty-contents outcome, the extension error, the
\* "no assessments found" outcome or an extraction error leaves the file as it was.
C10_FileUntouchedWithoutSuccess ==
    (/\ last.handled
     /\ \/ last.resp.status.msg \in {"", "Please upload a .pptx file.",
                                     "No assessments found in this presentation."}
        \/ last.resp.status.cause \in ExtractionCauses)
    => output_file = last.prev_file

\* C10 witness: the example's records are still in the file after a later upload
\* that found no assessments
C10_Witness ==
    /\ last.handled
    /\ last.resp.status = NoResults
    /\ output_file.exists
    /\ ReadBack(output_file.sheet) = Expected(DocExample)

====
